---- MODULE Spec2Model ----
(***************************************************************************)
(* A model of collager: the nearest-tile search (src/src/collager.rs), the *)
(* per-cell workers and the compositor (src/src/collager.rs), the          *)
(* candidate-tile generator and its loader threads (src/src/imager.rs).    *)
(*                                                                         *)
(* The parts of the program are specifications over one set of variables:  *)
(* SpecSearch (one run of the search loop over a stream of candidates),    *)
(* SpecCollage (Collager::new, best_indices and construct_from_indices),   *)
(* SpecImager (Imager::create_images on a loaded folder) and SpecLoader    *)
(* (Imager::new from the directory: folder_images, then create_images;     *)
(* SpecLoaderFair adds the scheduling of the threads).  Each specification *)
(* keeps the variables of the other parts at their idle values.            *)
(***************************************************************************)
EXTENDS Integers, Sequences, FiniteSets, TLC

VARIABLES
    \* ---- search loop (Collager::best_fit_index_associated)
    subimage,       \* the cell: the target's pixels, a sequence of Lab
    scanned,        \* the candidates the iterator has yielded so far
    best_fit,       \* BestFit{index, error}
    spc,            \* "scan" | "done"
    found,          \* the returned index
    \* ---- collage (Collager)
    cfg,            \* the arguments of Collager::new and the input image size
    image,          \* Collager.image: the resized target, in Lab
    height,         \* Collager.height
    images,         \* the candidate pool handed to collage (ImagesContainer)
    spawned,        \* number of workers spawned so far
    worker,         \* worker k: "running" | "finished" | "joined"
    retval,         \* worker k's return value, once finished
    finish_order,   \* the cells in the order their workers finished
    indices,        \* the Vec<usize> best_indices collects
    names_text,     \* the text written to output_indices, or NoText
    output,         \* the raster construct_from_indices returns, or NoRaster
    writes,         \* per output pixel, how many times put_pixel wrote it
    cpc,            \* "idle" | "spawn" | "join" | "construct" | "returned" | "panicked"
    \* ---- imager (Imager::create_images)
    folder,         \* the loaded source tiles, in discovery order
    icfg,           \* imager::Config: allow_rotate, allow_invert, depth
    pool,           \* the candidate pool create_images returns
    ipc,            \* "idle" | "load" | "create" | "done" | "failed"
    \* ---- loader (Imager::folder_images)
    dir,            \* the directory: whether read_dir succeeds, and its entries
    emfile,         \* the process is at its limit of open files
    lspawned,       \* number of loader threads spawned so far
    loader,         \* loader k: "open" | "sleep" | "done"
    lret,           \* loader k's return value, once done
    retries,        \* loader k: how many times it has slept and retried
    collected,      \* the Vec the joins have collected so far
    lerr,           \* the Error Imager::new returns, or NoError
    lpc             \* "idle" | "read_dir" | "spawn" | "join" | "returned"

searchVars  == <<subimage, scanned, best_fit, spc, found>>
collageVars == <<cfg, image, height, images, spawned, worker, retval,
                 finish_order, indices, names_text, output, writes, cpc>>
imagerVars  == <<folder, icfg, pool, ipc>>
loaderVars  == <<dir, emfile, lspawned, loader, lret, retries, collected, lerr,
                 lpc>>
vars == <<searchVars, collageVars, imagerVars, loaderVars>>

----------------------------------------------------------------------------
(* Bounds of the model                                                     *)

SearchMaxPixels == 2   \* pixels of a cell in SpecSearch
SearchMaxPool   == 3   \* candidates scanned in SpecSearch
MaxImageDim     == 3   \* width and height of the input image
MaxGridWidth    == 2   \* Collager.width
MaxPixelSize    == 2   \* Collager.pixel_size
MaxCells        == 4   \* collage is run on grids of at most this many cells
MaxFiles        == 2   \* source files in the tile directory
MaxDepth        == 2   \* imager::Config.depth
TileSize        == 2   \* imager::Config.image_size in SpecImager
MaxEntries      == 2   \* entries of the tile directory in SpecLoader
MaxRetries      == 2   \* the count of a loader's retries saturates here
MaxComposites   == 400 \* create_images is run for at most this many composites

----------------------------------------------------------------------------
(* Small helpers                                                           *)

Min(x, y) == IF x <= y THEN x ELSE y

RECURSIVE Pow(_, _)
Pow(b, e) == IF e = 0 THEN 1 ELSE b * Pow(b, e - 1)

\* b + b^2 + ... + b^e
RECURSIVE GeomSum(_, _)
GeomSum(b, e) == IF e = 0 THEN 0 ELSE GeomSum(b, e - 1) + Pow(b, e)

RECURSIVE SeqsOfLen(_, _)
SeqsOfLen(S, n) ==
    IF n = 0 THEN {<<>>}
    ELSE {Append(q, e) : q \in SeqsOfLen(S, n - 1), e \in S}

----------------------------------------------------------------------------
(* Colours.  An Rgb pixel is a triple of 8-bit channels.  Lab::from is     *)
(* floating-point (powf, cbrt); it is modelled by its values, rounded to   *)
(* integers, on the four colours the model uses.                           *)

Black == <<0, 0, 0>>
White == <<255, 255, 255>>
Red   == <<255, 0, 0>>
Blue  == <<0, 0, 255>>

RgbPalette == {Black, White, Red, Blue}

Lab(l, a, b) == [l |-> l, a |-> a, b |-> b]

LabFromRgb(p) ==
    CASE p = Black -> Lab(0, 0, 0)
      [] p = White -> Lab(100, 0, 0)
      [] p = Red   -> Lab(53, 80, 67)
      [] p = Blue  -> Lab(32, 79, -108)

\* Lab::distance: the squared Euclidean distance
distance(self, other) ==
    LET d_l == other.l - self.l
        d_a == other.a - self.a
        d_b == other.b - self.b
    IN  d_l * d_l + d_a * d_a + d_b * d_b

SQRT_DISTANCE == FALSE

ISqrt(n) == CHOOSE r \in 0..n : r * r <= n /\ n < (r + 1) * (r + 1)

----------------------------------------------------------------------------
(* f32 errors: a finite sum, or f32::INFINITY (the initial best error).    *)

F32(x) == [inf |-> FALSE, val |-> x]
F32_INFINITY == [inf |-> TRUE, val |-> 0]

F32Lt(x, y) == IF x.inf THEN FALSE ELSE IF y.inf THEN TRUE ELSE x.val < y.val
F32Ge(x, y) == IF x.inf THEN TRUE ELSE IF y.inf THEN FALSE ELSE x.val >= y.val

Some(x) == [some |-> TRUE, val |-> x]
None    == [some |-> FALSE, val |-> 0]

----------------------------------------------------------------------------
(* The search: Collager::pixels_error_early_exit and the loop of           *)
(* Collager::best_fit_index_associated.                                    *)

PixelError(a, b) ==
    IF SQRT_DISTANCE THEN ISqrt(distance(a, b)) ELSE distance(a, b)

\* try_fold over a.zip(b), from pixel i on, with accumulator acc
RECURSIVE TryFold(_, _, _, _, _)
TryFold(a, b, i, acc, min_bound) ==
    IF i > Min(Len(a), Len(b)) THEN Some(acc)
    ELSE LET acc2 == acc + PixelError(a[i], b[i])
         IN  IF F32Ge(F32(acc2), min_bound) THEN None
             ELSE TryFold(a, b, i + 1, acc2, min_bound)

pixels_error_early_exit(a, b, min_bound) == TryFold(a, b, 1, 0, min_bound)

\* BestFitStep with the best error never lowered: only the index is updated
BestFitStepStaleError(best, sub, index, img) ==
    LET error == pixels_error_early_exit(sub, img, best.error)
    IN  IF error.some /\ F32Lt(F32(error.val), best.error)
        THEN [index |-> index, error |-> best.error]
        ELSE best

\* BestFitStep with `<=` for `<` (and `>` for `>=` in the early exit): a
\* later candidate replaces the best on an equal error
BestFitStepTieLast(best, sub, index, img) ==
    LET error == pixels_error_early_exit(sub, img, F32_INFINITY)
    IN  IF ~F32Lt(best.error, F32(error.val))
        THEN [index |-> index, error |-> F32(error.val)]
        ELSE best

\* the body of images.for_each: candidate `img` of position `index`
BestFitStep(best, sub, index, img) ==
    LET error == pixels_error_early_exit(sub, img, best.error)
    IN  IF error.some /\ F32Lt(F32(error.val), best.error)
        THEN [index |-> index, error |-> F32(error.val)]
        ELSE best

BestFitInit == [index |-> 0, error |-> F32_INFINITY]

\* the state of the loop after the first n candidates
RECURSIVE BestFitAfter(_, _, _)
BestFitAfter(sub, imgs, n) ==
    IF n = 0 THEN BestFitInit
    ELSE BestFitStep(BestFitAfter(sub, imgs, n - 1), sub, n - 1, imgs[n])

best_fit_index_associated(sub, imgs) == BestFitAfter(sub, imgs, Len(imgs)).index

----------------------------------------------------------------------------
(* Rasters: ImageBuffer, a row-major vector of pixels.                     *)

\* the raster of w x h pixels whose pixel (x, y) is f[<<x, y>>]
RasterOf(w, h, f) ==
    [width |-> w, height |-> h,
     pix |-> [i \in 1..(w * h) |-> f[<<(i - 1) % w, (i - 1) \div w>>]]]

Coords(w, h) == (0..(w - 1)) \X (0..(h - 1))

InBounds(img, x, y) == x < img.width /\ y < img.height

get_pixel(img, x, y) == img.pix[y * img.width + x + 1]

put_pixel(img, x, y, p) ==
    [img EXCEPT !.pix = [img.pix EXCEPT ![y * img.width + x + 1] = p]]

\* LabImage::from(RgbImage): every pixel converted
LabImageFrom(img) ==
    [img EXCEPT !.pix = [i \in DOMAIN img.pix |-> LabFromRgb(img.pix[i])]]

\* LabImage::pixels: the pixels in row-major order
pixels(img) == img.pix

\* view(x, y, w, h) asserts that the view lies inside the image
ViewInBounds(img, position, size) ==
    /\ position.x + size.x <= img.width
    /\ position.y + size.y <= img.height

\* LabImage::subimage_pixels: the view's pixels, rows outermost
subimage_pixels(img, position, size) ==
    [i \in 1..(size.x * size.y) |->
        get_pixel(img, position.x + ((i - 1) % size.x),
                       position.y + ((i - 1) \div size.x))]

----------------------------------------------------------------------------
(* Collager::new                                                           *)

CeilDiv(n, d) == (n + d - 1) \div d

\* total_width = width * pixel_size (u32; the model's sizes are far from 2^32)
NewTotalWidth(w, ps) == w * ps

\* total_height = (image.height() * (total_width / image.width())).ceil(),
\* in exact arithmetic
NewTotalHeight(imgW, imgH, w, ps) == CeilDiv(imgH * NewTotalWidth(w, ps), imgW)

\* NewHeight rounding up: a partial last row would count as a row
NewHeightCeil(imgW, imgH, w, ps) ==
    CeilDiv(NewTotalHeight(imgW, imgH, w, ps), ps)

\* height = total_height / pixel_size
NewHeight(imgW, imgH, w, ps) == NewTotalHeight(imgW, imgH, w, ps) \div ps

\* The content of the resized target (imageops::resize is a library call):
\* one of a small family of rasters of the requested size.
PaletteSeq == <<Black, White, Red, Blue>>

TargetPatterns ==
    { [ax |-> 1, ay |-> 2, c |-> 0],
      [ax |-> 0, ay |-> 1, c |-> 1],
      [ax |-> 3, ay |-> 1, c |-> 2] }

ResizedTarget(pat, w, h) ==
    LabImageFrom(RasterOf(w, h,
        [p \in Coords(w, h) |->
            PaletteSeq[((pat.ax * p[1] + pat.ay * p[2] + pat.c) % Len(PaletteSeq)) + 1]]))

----------------------------------------------------------------------------
(* The candidate pools handed to collage: tiles of pixel_size x pixel_size *)
(* with a display name (a sequence of characters; empty for a composite).  *)

TilePixel(kind, x, y) ==
    CASE kind = "black"  -> Black
      [] kind = "white"  -> White
      [] kind = "red"    -> Red
      [] kind = "stripe" -> IF x = 0 THEN Blue ELSE Red
      [] kind = "diag"   -> IF x = y THEN White ELSE Black

ImagePair(kind, name, ps) ==
    [image |-> RasterOf(ps, ps, [p \in Coords(ps, ps) |-> TilePixel(kind, p[1], p[2])]),
     name |-> name]

CollagePools(ps) ==
    { <<>>,
      << ImagePair("black", <<"a">>, ps), ImagePair("white", <<"b">>, ps) >>,
      << ImagePair("stripe", <<>>, ps), ImagePair("red", <<"c", "d">>, ps),
         ImagePair("diag", <<"e", " ", "f">>, ps) >>,
      << ImagePair("red", <<"r">>, ps), ImagePair("red", <<"r", "2">>, ps),
         ImagePair("black", <<"k">>, ps), ImagePair("white", <<>>, ps) >> }

----------------------------------------------------------------------------
(* Collager::positions_iter: rows outermost                                *)

\* positions_iter over the columns 1..=width
positions_iter_FromOne(w, h, ps) ==
    [k \in 1..(w * h) |->
        [x |-> (((k - 1) % w) + 1) * ps, y |-> ((k - 1) \div w) * ps]]

positions_iter(w, h, ps) ==
    [k \in 1..(w * h) |->
        [x |-> ((k - 1) % w) * ps, y |-> ((k - 1) \div w) * ps]]

\* Collager::best_fit_index_assoc: what one worker computes
best_fit_index_assoc(img, lab_images, position, size) ==
    best_fit_index_associated(subimage_pixels(img, position, size), lab_images)

\* collage: the pool converted to Lab
LabImages(imgs) == [i \in DOMAIN imgs |-> pixels(LabImageFrom(imgs[i].image))]

----------------------------------------------------------------------------
(* Collager::construct_from_indices.  idx holds 0-based candidate indices; *)
(* indexing a Vec out of range, get_pixel/put_pixel out of bounds and      *)
(* expect on an exhausted iterator panic.                                  *)

Space   == " "
Newline == "\n"

NoText == [written |-> FALSE, s |-> <<>>]
NoRaster == [width |-> 0, height |-> 0, pix |-> <<>>]

\* RowText without the `if not last` test: a space after every name
RECURSIVE RowTextTrailingSpace(_, _, _, _, _)
RowTextTrailingSpace(idx, imgs, w, y, x) ==
    IF x >= w THEN <<>>
    ELSE imgs[idx[y * w + x + 1] + 1].name \o <<Space>>
         \o RowTextTrailingSpace(idx, imgs, w, y, x + 1)

\* the inner loop `for x in 0..self.width` of row y, from column x on
RECURSIVE RowText(_, _, _, _, _)
RowText(idx, imgs, w, y, x) ==
    IF x >= w THEN <<>>
    ELSE imgs[idx[y * w + x + 1] + 1].name
         \o (IF x # w - 1 THEN <<Space>> ELSE <<>>)
         \o RowText(idx, imgs, w, y, x + 1)

\* the outer loop `for y in 0..self.height`, from row y on
RECURSIVE GridText(_, _, _, _, _)
GridText(idx, imgs, w, h, y) ==
    IF y >= h THEN <<>>
    ELSE RowText(idx, imgs, w, y, 0)
         \o (IF y # h - 1 THEN <<Newline>> ELSE <<>>)
         \o GridText(idx, imgs, w, h, y + 1)

\* the label loop panics: too few indices, or an index outside the pool
LabelPanics(idx, imgs, w, h) ==
    \E k \in 1..(w * h) : k > Len(idx) \/ idx[k] >= Len(imgs)

\* Puts with x and y exchanged in the destination: tiles come out transposed
PutsTransposed(idx, imgs, w, h, ps) ==
    LET pos == positions_iter(w, h, ps)
        n   == Min(w * h, Len(idx))
    IN  [j \in 1..(n * ps * ps) |->
            LET k == ((j - 1) \div (ps * ps)) + 1
                o == (j - 1) % (ps * ps)
                x == o % ps
                y == o \div ps
            IN  [index |-> idx[k], sx |-> x, sy |-> y,
                 dx |-> pos[k].x + y, dy |-> pos[k].y + x]]

\* the put_pixel calls of positions_iter().zip(indices).for_each, in order
Puts(idx, imgs, w, h, ps) ==
    LET pos == positions_iter(w, h, ps)
        n   == Min(w * h, Len(idx))
    IN  [j \in 1..(n * ps * ps) |->
            LET k == ((j - 1) \div (ps * ps)) + 1
                o == (j - 1) % (ps * ps)
                x == o % ps
                y == o \div ps
            IN  [index |-> idx[k], sx |-> x, sy |-> y,
                 dx |-> pos[k].x + x, dy |-> pos[k].y + y]]

PutPanics(op, imgs, buf) ==
    \/ op.index >= Len(imgs)
    \/ ~InBounds(imgs[op.index + 1].image, op.sx, op.sy)
    \/ ~InBounds(buf, op.dx, op.dy)

RECURSIVE ApplyPuts(_, _, _, _)
ApplyPuts(st, ops, imgs, i) ==
    IF i > Len(ops) \/ st.panic THEN st
    ELSE IF PutPanics(ops[i], imgs, st.raster)
         THEN [st EXCEPT !.panic = TRUE]
         ELSE LET op  == ops[i]
                  at  == op.dy * st.raster.width + op.dx + 1
                  pix == get_pixel(imgs[op.index + 1].image, op.sx, op.sy)
              IN  ApplyPuts(
                    [st EXCEPT !.raster = put_pixel(st.raster, op.dx, op.dy, pix),
                               !.writes = [st.writes EXCEPT ![at] = @ + 1]],
                    ops, imgs, i + 1)

construct_from_indices(idx, imgs, w, h, ps, want_names) ==
    IF want_names /\ LabelPanics(idx, imgs, w, h)
    THEN [panic |-> TRUE, text |-> NoText, raster |-> NoRaster, writes |-> <<>>]
    ELSE
      LET text == IF want_names
                  THEN [written |-> TRUE, s |-> GridText(idx, imgs, w, h, 0)]
                  ELSE NoText
          buf  == RasterOf(w * ps, h * ps,
                           [p \in Coords(w * ps, h * ps) |-> Black])
          st   == ApplyPuts([panic |-> FALSE, raster |-> buf,
                             writes |-> [i \in 1..(w * ps * h * ps) |-> 0]],
                            Puts(idx, imgs, w, h, ps), imgs, 1)
      IN  IF st.panic
          THEN [panic |-> TRUE, text |-> text, raster |-> NoRaster, writes |-> <<>>]
          ELSE [panic |-> FALSE, text |-> text, raster |-> st.raster,
                writes |-> st.writes]

----------------------------------------------------------------------------
(* imager::Error and the results of the loader threads.  An ImageError is  *)
(* [kind, raw_os_error]: kind "IoError" with the OS error code, if any, or *)
(* kind "Decoding".                                                        *)

EMFILE == 24

IoError(code) == [kind |-> "IoError", raw_os_error |-> code]
Decoding == [kind |-> "Decoding", raw_os_error |-> None]
NoImageError == [kind |-> "none", raw_os_error |-> None]

\* Error::new(filename, error)
ErrorNew(filename, error) == [filename |-> Some(filename), error |-> error]

\* impl From<io::Error> for Error
ErrorFromIo(value) == [filename |-> None, error |-> value]

NoError == [filename |-> None, error |-> NoImageError]

\* is_recoverable taking every I/O error for a transient one
is_recoverable_AnyIoError(err) == err.error.kind = "IoError"

\* the closure is_recoverable of folder_images
is_recoverable(err) ==
    LET image_error == err.error
    IN  IF image_error.kind = "IoError"
        THEN IF image_error.raw_os_error.some
             THEN image_error.raw_os_error.val = EMFILE
             ELSE FALSE
        ELSE FALSE

NoPair == [image |-> NoRaster, name |-> <<>>]

\* Result<ImagePair<DynamicImage>, Error>
Ok(pair) == [ok |-> TRUE, pair |-> pair, err |-> NoError]
Err(err) == [ok |-> FALSE, pair |-> NoPair, err |-> err]
NoResult == [ok |-> FALSE, pair |-> NoPair, err |-> NoError]

----------------------------------------------------------------------------
(* Idle values: a specification keeps the other parts' variables at these. *)

SearchIdle ==
    /\ subimage = <<>> /\ scanned = <<>> /\ best_fit = BestFitInit
    /\ spc = "idle" /\ found = -1

CollageIdle ==
    /\ cfg = [imgW |-> 1, imgH |-> 1, width |-> 1, pixel_size |-> 1,
              output_indices |-> FALSE]
    /\ image = NoRaster /\ height = 0 /\ images = <<>>
    /\ spawned = 0 /\ worker = <<>> /\ retval = <<>> /\ finish_order = <<>>
    /\ indices = <<>> /\ names_text = NoText /\ output = NoRaster
    /\ writes = <<>> /\ cpc = "idle"

ImagerIdle ==
    /\ folder = <<>>
    /\ icfg = [allow_rotate |-> FALSE, allow_invert |-> FALSE, depth |-> 0]
    /\ pool = <<>> /\ ipc = "idle"

LoaderIdle ==
    /\ dir = [readable |-> TRUE, entries |-> <<>>]
    /\ emfile = FALSE /\ lspawned = 0
    /\ loader = <<>> /\ lret = <<>> /\ retries = <<>>
    /\ collected = <<>> /\ lerr = NoError /\ lpc = "idle"

----------------------------------------------------------------------------
(* SpecSearch: one run of best_fit_index_associated.  The cell is fixed;   *)
(* the iterator yields candidates of the cell's size one at a time.        *)

\* the pixel values of the cell and of the candidates
CellPalette == {LabFromRgb(Black), LabFromRgb(White)}
SearchPalette == {LabFromRgb(Black), LabFromRgb(Red)}

SearchInit ==
    /\ subimage \in UNION {SeqsOfLen(CellPalette, n) : n \in 0..SearchMaxPixels}
    /\ scanned = <<>>
    /\ best_fit = BestFitInit
    /\ spc = "scan"
    /\ found = -1
    /\ CollageIdle /\ ImagerIdle /\ LoaderIdle

\* one iteration of images.for_each
ScanImage ==
    /\ spc = "scan"
    /\ Len(scanned) < SearchMaxPool
    /\ \E img \in SeqsOfLen(SearchPalette, Len(subimage)) :
          /\ best_fit' = BestFitStep(best_fit, subimage, Len(scanned), img)
          /\ scanned' = Append(scanned, img)
    /\ UNCHANGED <<subimage, spc, found, collageVars, imagerVars,
                   loaderVars>>

\* the iterator is exhausted: best_fit.index is returned
SearchReturn ==
    /\ spc = "scan"
    /\ spc' = "done"
    /\ found' = best_fit.index
    /\ UNCHANGED <<subimage, scanned, best_fit, collageVars, imagerVars,
                   loaderVars>>

SearchNext == ScanImage \/ SearchReturn

SpecSearch == SearchInit /\ [][SearchNext]_vars

----------------------------------------------------------------------------
(* SpecCollage: Collager::new, then collage: best_indices spawns a worker  *)
(* per cell and joins them; construct_from_indices builds the output.      *)

Cells == cfg.width * height

CellSize == [x |-> cfg.pixel_size, y |-> cfg.pixel_size]

CollageInit ==
    /\ \E imgW \in 1..MaxImageDim, imgH \in 1..MaxImageDim,
          w \in 1..MaxGridWidth, ps \in 1..MaxPixelSize,
          want \in BOOLEAN, pat \in TargetPatterns :
          /\ cfg = [imgW |-> imgW, imgH |-> imgH, width |-> w,
                    pixel_size |-> ps, output_indices |-> want]
          /\ image = ResizedTarget(pat, NewTotalWidth(w, ps),
                                   NewTotalHeight(imgW, imgH, w, ps))
          /\ height = NewHeight(imgW, imgH, w, ps)
          /\ images \in CollagePools(ps)
    /\ spawned = 0 /\ worker = <<>> /\ retval = <<>> /\ finish_order = <<>>
    /\ indices = <<>> /\ names_text = NoText /\ output = NoRaster
    /\ writes = <<>> /\ cpc = "spawn"
    /\ SearchIdle /\ ImagerIdle /\ LoaderIdle

\* thread::spawn for the next position of positions_iter
Spawn ==
    /\ cpc = "spawn"
    /\ Cells <= MaxCells
    /\ spawned < Cells
    /\ spawned' = spawned + 1
    /\ worker' = Append(worker, "running")
    /\ retval' = Append(retval, -1)
    /\ UNCHANGED <<cfg, image, height, images, finish_order, indices,
                   names_text, output, writes, cpc, searchVars, imagerVars,
                   loaderVars>>

\* positions_iter is exhausted: the handles are collected
SpawnDone ==
    /\ cpc = "spawn"
    /\ Cells <= MaxCells
    /\ spawned = Cells
    /\ cpc' = "join"
    /\ UNCHANGED <<cfg, image, height, images, spawned, worker, retval,
                   finish_order, indices, names_text, output, writes,
                   searchVars, imagerVars, loaderVars>>

\* worker k runs to completion
WorkerFinish(k) ==
    /\ k \in 1..spawned
    /\ worker[k] = "running"
    /\ LET position == positions_iter(cfg.width, height, cfg.pixel_size)[k]
       IN  IF ViewInBounds(image, position, CellSize)
           THEN /\ worker' = [worker EXCEPT ![k] = "finished"]
                /\ retval' = [retval EXCEPT ![k] =
                      best_fit_index_assoc(image, LabImages(images),
                                           position, CellSize)]
           ELSE /\ worker' = [worker EXCEPT ![k] = "panicked"]
                /\ UNCHANGED retval
    /\ finish_order' = Append(finish_order, k)
    /\ UNCHANGED <<cfg, image, height, images, spawned, indices,
                   names_text, output, writes, cpc, searchVars, imagerVars,
                   loaderVars>>

\* NextHandle taking the workers in the order they finished
NextHandleByFinish ==
    IF Len(indices) < Len(finish_order)
    THEN finish_order[Len(indices) + 1]
    ELSE 0

\* handles.into_iter(): the handle joined next is the next one spawned
NextHandle == Len(indices) + 1

\* handle.join().unwrap() on the next handle, once its worker is over
Join ==
    /\ cpc = "join"
    /\ NextHandle \in 1..spawned
    /\ worker[NextHandle] \in {"finished", "panicked"}
    /\ IF worker[NextHandle] = "panicked"
       THEN /\ cpc' = "panicked"
            /\ UNCHANGED <<indices, worker>>
       ELSE /\ indices' = Append(indices, retval[NextHandle])
            /\ worker' = [worker EXCEPT ![NextHandle] = "joined"]
            /\ UNCHANGED cpc
    /\ UNCHANGED <<cfg, image, height, images, spawned, retval, finish_order,
                   names_text, output, writes, searchVars, imagerVars,
                   loaderVars>>

\* every handle is joined: construct_from_indices(indices, images)
Construct ==
    /\ cpc = "join"
    /\ Len(indices) = spawned
    /\ LET r == construct_from_indices(indices, images, cfg.width, height,
                                       cfg.pixel_size, cfg.output_indices)
       IN  /\ names_text' = r.text
           /\ output' = r.raster
           /\ writes' = r.writes
           /\ cpc' = IF r.panic THEN "panicked" ELSE "returned"
    /\ UNCHANGED <<cfg, image, height, images, spawned, worker, retval,
                   finish_order, indices, searchVars, imagerVars,
                   loaderVars>>

CollageNext ==
    \/ Spawn
    \/ SpawnDone
    \/ \E k \in 1..MaxCells : WorkerFinish(k)
    \/ Join
    \/ Construct

SpecCollage == CollageInit /\ [][CollageNext]_vars

----------------------------------------------------------------------------
(* The tile generator (imager.rs).  A DynamicImage is modelled as an Rgba  *)
(* raster; a pixel is [c |-> <<r, g, b>>, a |-> alpha].  Alpha is 0 or 255 *)
(* in the model, for which Pixel::blend is exact.                          *)

Rgba(c, a) == [c |-> c, a |-> a]

U8_MAX == 255

\* DynamicImage::fliph
fliph(img) ==
    RasterOf(img.width, img.height,
        [p \in Coords(img.width, img.height) |->
            get_pixel(img, img.width - 1 - p[1], p[2])])

\* DynamicImage::rotate90 (clockwise): out(height - 1 - y, x) = in(x, y)
rotate90(img) ==
    RasterOf(img.height, img.width,
        [p \in Coords(img.height, img.width) |->
            get_pixel(img, p[2], img.height - 1 - p[1])])

\* DynamicImage::rotate180: out(width - 1 - x, height - 1 - y) = in(x, y)
rotate180(img) ==
    RasterOf(img.width, img.height,
        [p \in Coords(img.width, img.height) |->
            get_pixel(img, img.width - 1 - p[1], img.height - 1 - p[2])])

\* DynamicImage::rotate270: out(y, width - 1 - x) = in(x, y)
rotate270(img) ==
    RasterOf(img.height, img.width,
        [p \in Coords(img.height, img.width) |->
            get_pixel(img, img.width - 1 - p[2], p[1])])

\* DynamicImage::invert: the colour channels inverted, alpha kept
invert(img) ==
    [img EXCEPT !.pix = [i \in DOMAIN img.pix |->
        Rgba(<<U8_MAX - img.pix[i].c[1], U8_MAX - img.pix[i].c[2],
               U8_MAX - img.pix[i].c[3]>>, img.pix[i].a)]]

\* DynamicImage::into_rgb8, and RgbaImage -> RgbImage convert: alpha dropped
into_rgb8(img) == [img EXCEPT !.pix = [i \in DOMAIN img.pix |-> img.pix[i].c]]

\* DynamicImage::into_rgba8
into_rgba8(img) == img

\* the closures handed to map_image and map_image_ref, by name
ImageOp(f, img) ==
    CASE f = "fliph"      -> fliph(img)
      [] f = "rotate90"   -> rotate90(img)
      [] f = "rotate180"  -> rotate180(img)
      [] f = "rotate270"  -> rotate270(img)
      [] f = "invert"     -> invert(img)
      [] f = "into_rgb8"  -> into_rgb8(img)
      [] f = "into_rgba8" -> into_rgba8(img)

\* map_image building the pair with a fresh String for its name
map_image_FreshName(pair, f) == [image |-> ImageOp(f, pair.image), name |-> <<>>]

\* ImagePair::map_image_ref / map_image: the image mapped, the name kept
map_image(pair, f) == [image |-> ImageOp(f, pair.image), name |-> pair.name]

MapImages(pairs, f) == [i \in DOMAIN pairs |-> map_image(pairs[i], f)]

\* Imager::create_dynamic_images, given the images folder_images loaded
create_dynamic_images(loaded, config) ==
    LET rotated ==
            LET images_mirrored == MapImages(loaded, "fliph")
                both      == loaded \o images_mirrored
                rotated90  == MapImages(both, "rotate90")
                rotated180 == MapImages(both, "rotate180")
                rotated270 == MapImages(both, "rotate270")
            IN  rotated90 \o rotated180 \o rotated270
        imgs1 == IF config.allow_rotate THEN loaded \o rotated ELSE loaded
        imgs2 == IF config.allow_invert
                 THEN imgs1 \o MapImages(imgs1, "invert")
                 ELSE imgs1
    IN  imgs2

\* Imager::create_mapped_images
create_mapped_images(loaded, config, f) ==
    MapImages(create_dynamic_images(loaded, config), f)

\* Imager::created_unpermuted_images
created_unpermuted_images(loaded, config) ==
    create_mapped_images(loaded, config, "into_rgb8")

\* Pixel::blend for Rgba: `other` painted over `pixel`
blend(pixel, other) ==
    IF other.a = 0 THEN pixel
    ELSE IF other.a = U8_MAX THEN other
    ELSE other   \* partial alpha does not occur in the model

\* Imager::combine_images_f32
combine_images_f32(back, other) ==
    [back EXCEPT !.pix = [i \in 1..Min(Len(back.pix), Len(other.pix)) |->
                             blend(back.pix[i], other.pix[i])]]

\* Imager::combine_images: the blend in f32, converted back to u8
combine_images(back, other) == combine_images_f32(back, other)

\* the closure of the partition
contains_transparency(pair) ==
    \E i \in DOMAIN pair.image.pix : pair.image.pix[i].a # U8_MAX

\* the body of `for _ in 0..(depth - 1)`, n iterations left
RECURSIVE RecombineLoop(_, _, _, _)
RecombineLoop(orig, previous, output_images, n) ==
    IF n <= 0 THEN output_images
    ELSE LET this_transparents ==
                 [k \in 1..(Len(previous) * Len(orig)) |->
                     combine_images_f32(previous[((k - 1) \div Len(orig)) + 1],
                                        orig[((k - 1) % Len(orig)) + 1])]
         IN  RecombineLoop(orig, this_transparents,
                           output_images \o this_transparents, n - 1)

\* recombine_transparents looping `0..depth`: one level too many
recombine_transparents_ExtraLevel(orig, depth) ==
    IF depth > 1 THEN RecombineLoop(orig, orig, orig, depth) ELSE orig

\* Imager::recombine_transparents
recombine_transparents(orig, depth) ==
    IF depth > 1 THEN RecombineLoop(orig, orig, orig, depth - 1) ELSE orig

PairImages(pairs) == [i \in DOMAIN pairs |-> pairs[i].image]

\* Imager::created_permuted_images
created_permuted_images(loaded, config) ==
    LET imgs == create_mapped_images(loaded, config, "into_rgba8")
        transparent_images == SelectSeq(imgs, contains_transparency)
        solid_images == SelectSeq(imgs, LAMBDA pr : ~contains_transparency(pr))
        combos == recombine_transparents(PairImages(transparent_images),
                                         config.depth)
        permuted_images ==
            [k \in 1..(Len(solid_images) * Len(combos)) |->
                [image |-> combine_images(
                              solid_images[((k - 1) \div Len(combos)) + 1].image,
                              combos[((k - 1) % Len(combos)) + 1]),
                 name |-> <<>>]]
    IN  MapImages(permuted_images \o solid_images, "into_rgb8")

\* create_images without the depth == 0 branch
create_images_AlwaysPermuted(loaded, config) ==
    created_permuted_images(loaded, config)

\* Imager::create_images
create_images(loaded, config) ==
    IF config.depth = 0
    THEN created_unpermuted_images(loaded, config)
    ELSE created_permuted_images(loaded, config)

----------------------------------------------------------------------------
(* SpecImager: Imager::new on a directory whose files folder_images has    *)
(* loaded and resized to TileSize x TileSize.                              *)

SourcePixel(kind, x, y) ==
    CASE kind = "solid"  -> Rgba(IF x = 0 THEN (IF y = 0 THEN Red ELSE Blue)
                                 ELSE (IF y = 0 THEN Black ELSE White), U8_MAX)
      [] kind = "plain"  -> Rgba(Red, U8_MAX)
      [] kind = "corner" -> IF x = 0 /\ y = 0 THEN Rgba(White, U8_MAX)
                            ELSE Rgba(Black, 0)
      [] kind = "bar"    -> IF y = 0 THEN Rgba(Blue, U8_MAX)
                            ELSE Rgba(Black, 0)

SourceFile(kind, name) ==
    [image |-> RasterOf(TileSize, TileSize,
                        [p \in Coords(TileSize, TileSize) |->
                            SourcePixel(kind, p[1], p[2])]),
     name |-> name]

SourceFiles ==
    { SourceFile("solid", <<"s">>), SourceFile("plain", <<"p">>),
      SourceFile("corner", <<"c">>), SourceFile("bar", <<"b">>) }

\* the directories: up to MaxFiles distinct files, in any discovery order
Folders ==
    { q \in UNION {SeqsOfLen(SourceFiles, n) : n \in 0..MaxFiles} :
        \A i, j \in 1..Len(q) : i # j => q[i] # q[j] }

ImagerInit ==
    /\ folder \in Folders
    /\ icfg \in [allow_rotate : BOOLEAN, allow_invert : BOOLEAN,
                 depth : 0..MaxDepth]
    /\ pool = <<>>
    /\ ipc = "create"
    /\ SearchIdle /\ CollageIdle /\ LoaderIdle

\* the number of composites created_permuted_images is going to build
Composites ==
    LET imgs == create_dynamic_images(folder, icfg)
        T == Len(SelectSeq(imgs, contains_transparency))
        S == Len(imgs) - T
    IN  IF icfg.depth = 0 THEN 0 ELSE S * GeomSum(T, icfg.depth)

\* Imager::new: images = create_images(directory, config)
CreateImages ==
    /\ ipc = "create"
    /\ Composites <= MaxComposites
    /\ pool' = create_images(folder, icfg)
    /\ ipc' = "done"
    /\ UNCHANGED <<folder, icfg, searchVars, collageVars, loaderVars>>

ImagerNext == CreateImages

SpecImager == ImagerInit /\ [][ImagerNext]_vars

----------------------------------------------------------------------------
(* SpecLoader: Imager::new from the directory.  folder_images spawns one   *)
(* loader thread per discovered entry and joins them in order; then        *)
(* create_images builds the pool from what was loaded.                     *)
(*                                                                         *)
(* A directory entry is [ok, is_file, file_name, open]: ok is whether      *)
(* read_dir yielded the entry without error, open is what image::open      *)
(* gives for the file when the process is not out of file descriptors:     *)
(* [decoded, kind] with the kind of picture, or [decoded = FALSE, error].  *)

Dot == "."

OtherOsError == 2

Opens(kind) == [decoded |-> TRUE, kind |-> kind, error |-> NoImageError]
OpenFails(error) == [decoded |-> FALSE, kind |-> "none", error |-> error]

File(file_name, open) ==
    [ok |-> TRUE, is_file |-> TRUE, file_name |-> file_name, open |-> open]

DirEntries ==
    { File(<<"s", Dot, "p">>, Opens("solid")),
      File(<<Dot, "c">>, Opens("corner")),
      File(<<"b", Dot, "x">>, OpenFails(Decoding)),
      File(<<"n">>, OpenFails(IoError(Some(OtherOsError)))),
      [ok |-> TRUE, is_file |-> FALSE, file_name |-> <<"d">>,
       open |-> OpenFails(NoImageError)],
      [ok |-> FALSE, is_file |-> FALSE, file_name |-> <<>>,
       open |-> OpenFails(NoImageError)] }

\* the directories: read_dir fails, or yields up to MaxEntries entries
Directories ==
    {[readable |-> FALSE, entries |-> <<>>]} \cup
    { [readable |-> TRUE, entries |-> q] :
        q \in { s \in UNION {SeqsOfLen(DirEntries, n) : n \in 0..MaxEntries} :
                  \A i, j \in 1..Len(s) :
                      (i # j /\ s[i].ok /\ s[j].ok) =>
                          s[i].file_name # s[j].file_name } }

\* the closure of .filter: a regular file, or an entry that failed to read
IsKept(image_file) ==
    IF image_file.ok THEN image_file.is_file ELSE TRUE

\* the entries a thread is spawned for, in discovery order
Discovered == SelectSeq(dir.entries, IsKept)

\* index of the last Dot of a file name, 0 if it has none
RECURSIVE LastDot(_, _)
LastDot(file_name, i) ==
    IF i = 0 THEN 0
    ELSE IF file_name[i] = Dot THEN i
    ELSE LastDot(file_name, i - 1)

\* Path::file_stem: None for "..", the whole name if it has no Dot or its
\* only Dot is in front, the part before the last Dot otherwise
file_stem(file_name) ==
    IF file_name = <<Dot, Dot>> \/ file_name = <<>> THEN None
    ELSE LET d == LastDot(file_name, Len(file_name))
         IN  IF d <= 1 THEN Some(file_name)
             ELSE Some(SubSeq(file_name, 1, d - 1))

\* Imager::resize_image: the picture filled into image_size x image_size
resize_image(kind, image_size) ==
    RasterOf(image_size, image_size,
             [q \in Coords(image_size, image_size) |->
                 SourcePixel(kind, q[1], q[2])])

\* what image::open(&image_path) can return in the current state
OpenResults(image_file) ==
    {image_file.open} \cup
    (IF emfile THEN {OpenFails(IoError(Some(EMFILE)))} ELSE {})

\* the configs Imager::new is run with: the default, every augmentation
\* without permutations, and permutations of rotated tiles
LoaderConfigs ==
    { [allow_rotate |-> FALSE, allow_invert |-> FALSE, depth |-> 0],
      [allow_rotate |-> TRUE,  allow_invert |-> TRUE,  depth |-> 0],
      [allow_rotate |-> TRUE,  allow_invert |-> FALSE, depth |-> 1] }

LoaderInit ==
    /\ dir \in Directories
    /\ emfile \in BOOLEAN
    /\ icfg \in LoaderConfigs
    /\ folder = <<>> /\ pool = <<>> /\ ipc = "load"
    /\ lspawned = 0 /\ loader = <<>> /\ lret = <<>> /\ retries = <<>>
    /\ collected = <<>> /\ lerr = NoError /\ lpc = "read_dir"
    /\ SearchIdle /\ CollageIdle

\* directory.read_dir()?
ReadDir ==
    /\ lpc = "read_dir"
    /\ IF dir.readable
       THEN /\ lpc' = "spawn"
            /\ UNCHANGED <<lerr, ipc>>
       ELSE /\ lerr' = ErrorFromIo(IoError(Some(OtherOsError)))
            /\ lpc' = "returned"
            /\ ipc' = "failed"
    /\ UNCHANGED <<dir, emfile, lspawned, loader, lret, retries, collected,
                   folder, icfg, pool, searchVars, collageVars>>

\* thread::spawn for the next entry that passes the filter
LoaderSpawn ==
    /\ lpc = "spawn"
    /\ lspawned < Len(Discovered)
    /\ lspawned' = lspawned + 1
    /\ loader' = Append(loader, "open")
    /\ lret' = Append(lret, NoResult)
    /\ retries' = Append(retries, 0)
    /\ UNCHANGED <<dir, emfile, collected, lerr, lpc, imagerVars, searchVars,
                   collageVars>>

\* read_dir is exhausted: the handles are collected
LoaderSpawnDone ==
    /\ lpc = "spawn"
    /\ lspawned = Len(Discovered)
    /\ lpc' = "join"
    /\ UNCHANGED <<dir, emfile, lspawned, loader, lret, retries, collected,
                   lerr, imagerVars, searchVars, collageVars>>

\* loader k returns r
LoaderDone(k, r) ==
    /\ loader' = [loader EXCEPT ![k] = "done"]
    /\ lret' = [lret EXCEPT ![k] = r]
    /\ UNCHANGED retries

\* loader k: `image_path?` and one iteration of the loop around image::open
LoaderOpen(k) ==
    /\ k \in 1..lspawned
    /\ loader[k] = "open"
    /\ LET image_file == Discovered[k]
           image_path == image_file.file_name
       IN  IF ~image_file.ok
           THEN LoaderDone(k, Err(ErrorFromIo(IoError(None))))
           ELSE \E opened \in OpenResults(image_file) :
                  IF opened.decoded
                  THEN LET name == file_stem(image_path)
                       IN  IF name.some
                           THEN LoaderDone(k,
                                  Ok([image |-> resize_image(opened.kind, TileSize),
                                      name |-> name.val]))
                           ELSE /\ loader' = [loader EXCEPT ![k] = "panicked"]
                                /\ UNCHANGED <<lret, retries>>
                  ELSE IF is_recoverable(ErrorNew(image_path, opened.error))
                  THEN /\ loader' = [loader EXCEPT ![k] = "sleep"]
                       /\ retries' = [retries EXCEPT ![k] =
                                         Min(retries[k] + 1, MaxRetries)]
                       /\ UNCHANGED lret
                  ELSE LoaderDone(k, Err(ErrorNew(image_path, opened.error)))
    /\ UNCHANGED <<dir, emfile, lspawned, collected, lerr, lpc, imagerVars,
                   searchVars, collageVars>>

\* loader k: thread::sleep is over, `continue`
LoaderWake(k) ==
    /\ k \in 1..lspawned
    /\ loader[k] = "sleep"
    /\ loader' = [loader EXCEPT ![k] = "open"]
    /\ UNCHANGED <<dir, emfile, lspawned, lret, retries, collected, lerr, lpc,
                   imagerVars, searchVars, collageVars>>

\* the process reaches, or leaves, its limit of open files
EmfileChange ==
    /\ lpc \in {"read_dir", "spawn", "join"}
    /\ emfile' = ~emfile
    /\ UNCHANGED <<dir, lspawned, loader, lret, retries, collected, lerr, lpc,
                   imagerVars, searchVars, collageVars>>

\* NextLoader taking the handles from the last spawned to the first
NextLoaderReversed == lspawned - Len(collected)

\* handles.into_iter(): the handle joined next is the next one spawned
NextLoader == Len(collected) + 1

\* handle.join().unwrap() on the next handle; collect stops at the first Err
LoaderJoin ==
    /\ lpc = "join"
    /\ NextLoader \in 1..lspawned
    /\ loader[NextLoader] \in {"done", "panicked"}
    /\ IF loader[NextLoader] = "panicked"
       THEN /\ lpc' = "panicked"
            /\ ipc' = "failed"
            /\ UNCHANGED <<collected, lerr>>
       ELSE IF lret[NextLoader].ok
       THEN /\ collected' = Append(collected, lret[NextLoader].pair)
            /\ UNCHANGED <<lerr, lpc, ipc>>
       ELSE /\ lerr' = lret[NextLoader].err
            /\ lpc' = "returned"
            /\ ipc' = "failed"
            /\ UNCHANGED collected
    /\ UNCHANGED <<dir, emfile, lspawned, loader, lret, retries, folder, icfg,
                   pool, searchVars, collageVars>>

\* every handle is joined: folder_images returns Ok(images)
LoaderReturn ==
    /\ lpc = "join"
    /\ Len(collected) = lspawned
    /\ folder' = collected
    /\ lpc' = "returned"
    /\ ipc' = "create"
    /\ UNCHANGED <<dir, emfile, lspawned, loader, lret, retries, collected,
                   lerr, icfg, pool, searchVars, collageVars>>

LoaderMain ==
    \/ ReadDir
    \/ LoaderSpawn
    \/ LoaderSpawnDone
    \/ LoaderJoin
    \/ LoaderReturn
    \/ CreateImages

LoaderNext ==
    \/ LoaderMain
    \/ \E k \in 1..MaxEntries : LoaderOpen(k)
    \/ \E k \in 1..MaxEntries : LoaderWake(k)
    \/ EmfileChange

SpecLoader == LoaderInit /\ [][LoaderNext]_vars

\* the threads are scheduled and the main thread runs on; nothing is assumed
\* of the limit of open files
LoaderFairness ==
    /\ WF_vars(LoaderMain)
    /\ \A k \in 1..MaxEntries : WF_vars(LoaderOpen(k) \/ LoaderWake(k))

\* folder_images reads nothing of the config but image_size: the fair
\* specification runs it for the default config (config.rs)
LoaderFairInit ==
    /\ LoaderInit
    /\ icfg = [allow_rotate |-> FALSE, allow_invert |-> FALSE, depth |-> 0]

SpecLoaderFair == LoaderFairInit /\ [][LoaderNext]_vars /\ LoaderFairness

----------------------------------------------------------------------------
(* Properties of the search (SpecSearch)                                   *)

\* the error of a candidate summed in full, never abandoned
RECURSIVE FullSum(_, _, _)
FullSum(a, b, n) ==
    IF n = 0 THEN 0 ELSE FullSum(a, b, n - 1) + PixelError(a[n], b[n])

Total(j) == FullSum(subimage, scanned[j], Len(subimage))

\* brute force: the lowest (0-based) index among the minimal full sums
BruteForceIndex ==
    CHOOSE i \in 0..(Len(scanned) - 1) :
        \A j \in 0..(Len(scanned) - 1) :
            /\ Total(i + 1) <= Total(j + 1)
            /\ Total(j + 1) = Total(i + 1) => i <= j

\* candidate j was abandoned before its last pixel
AbandonedEarly(j) ==
    LET bound == BestFitAfter(subimage, scanned, j - 1).error
    IN  \E m \in 1..(Len(subimage) - 1) :
            F32Ge(F32(FullSum(subimage, scanned[j], m)), bound)

\* C1: for a non-empty pool the index the early-exit search holds, and the
\* index it returns, is the index brute-force full summation selects (the
\* lowest index among the candidates of minimal total distance).
C1_EarlyExitEqualsBruteForce ==
    scanned # <<>> =>
        /\ best_fit.index = BruteForceIndex
        /\ spc = "done" =>
              /\ found = BruteForceIndex
              /\ found = best_fit_index_associated(subimage, scanned)

\* C1 witness: a finished search in which the first candidate has a non-zero
\* error and the second was abandoned before its last pixel
C1_Witness ==
    /\ spc = "done"
    /\ Len(scanned) = 2
    /\ Total(1) > 0
    /\ AbandonedEarly(2)
    /\ found = 0

\* C2: the best index is never above the index of any candidate of minimal
\* total distance, its error is that minimal total, and of two candidates of
\* identical pixel content the later one is never the one selected.
C2_TieBreakLowestIndex ==
    /\ \A j \in 1..Len(scanned) :
          (\A i \in 1..Len(scanned) : Total(j) <= Total(i)) =>
              /\ best_fit.index <= j - 1
              /\ best_fit.error = F32(Total(j))
    /\ \A i, j \in 1..Len(scanned) :
          (i < j /\ scanned[i] = scanned[j]) => best_fit.index # j - 1
    /\ spc = "done" => found = best_fit.index

\* C2 witness: two candidates tie with a non-zero minimal error (the second
\* differs from the first in content) and the first is returned
C2_Witness ==
    /\ spc = "done"
    /\ Len(scanned) = 2
    /\ scanned[1] # scanned[2]
    /\ Total(1) = Total(2)
    /\ Total(1) > 0
    /\ found = 0

----------------------------------------------------------------------------
(* Properties of collage (SpecCollage)                                     *)

\* C3 (the claim as stated): with an empty pool collage never returns a
\* raster.  It fails on a grid of no rows: no worker is spawned, no
\* candidate is indexed, and a raster of height 0 is returned.
C3_EmptyPoolNeverReturns ==
    images = <<>> => cpc # "returned"

\* What the code does with an empty pool: it panics (images[0] is out of
\* range) exactly when the grid has a cell.
EmptyPoolPanicsIffGridHasCell ==
    (images = <<>> /\ cpc \in {"returned", "panicked"}) =>
        ((cpc = "panicked") <=> (Cells >= 1))

\* the (0-based) index the search selects for the cell of row r, column c
CellIndex(r, c) ==
    best_fit_index_associated(
        subimage_pixels(image,
                        [x |-> c * cfg.pixel_size, y |-> r * cfg.pixel_size],
                        CellSize),
        LabImages(images))

\* C4: under every interleaving the k-th collected result is the result of
\* the search on the k-th cell in row-major order; a worker is joined exactly
\* when its result is collected; when construct_from_indices runs there are
\* exactly width * height results.
C4_ResultsInSpawnOrder ==
    /\ Len(indices) <= spawned
    /\ spawned <= Cells
    /\ \A k \in 1..Len(indices) :
          indices[k] = CellIndex((k - 1) \div cfg.width, (k - 1) % cfg.width)
    /\ \A k \in 1..spawned : (worker[k] = "joined") <=> (k <= Len(indices))
    /\ cpc \in {"returned", "panicked"} => Len(indices) = Cells

\* C4 witness: collage returned, the worker spawned last finished first, and
\* the cells do not all have the same result
C4_Witness ==
    /\ cpc = "returned"
    /\ Cells >= 3
    /\ finish_order[1] = Cells
    /\ \E j, k \in 1..Cells : indices[j] # indices[k]

\* C5 (the claim as stated): the resized target is exactly width * pixel_size
\* by height * pixel_size
C5_TargetExactGrid ==
    cpc # "idle" =>
        /\ image.width = cfg.width * cfg.pixel_size
        /\ image.height = height * cfg.pixel_size

\* C5 (amended): the target's width is width * pixel_size; its height is the
\* scaled height, the least t with t * imgW >= imgH * width * pixel_size;
\* height is the scaled height divided by pixel_size, rounded down, so that
\* height * pixel_size <= target height < (height + 1) * pixel_size.
C5_TargetGeometry ==
    cpc # "idle" =>
        LET tw == cfg.width * cfg.pixel_size
        IN  /\ image.width = tw
            /\ image.height * cfg.imgW >= cfg.imgH * tw
            /\ (image.height - 1) * cfg.imgW < cfg.imgH * tw
            /\ height * cfg.pixel_size <= image.height
            /\ image.height < (height + 1) * cfg.pixel_size
            /\ (image.height = height * cfg.pixel_size)
                  <=> (image.height % cfg.pixel_size = 0)

\* C5 witness: a grid with at least one row under which a strip of the
\* target is left over
C5_Witness ==
    /\ cpc = "returned"
    /\ height >= 1
    /\ image.height > height * cfg.pixel_size

\* C6: the returned raster is (width * pixel_size) x (height * pixel_size);
\* the block of cell (c, r) is the tile of the (r * width + c)-th index,
\* pixel for pixel; every pixel was written exactly once.
C6_OutputIsTilesAtCells ==
    cpc = "returned" =>
        LET ps == cfg.pixel_size
        IN  /\ output.width = cfg.width * ps
            /\ output.height = height * ps
            /\ Len(output.pix) = (cfg.width * ps) * (height * ps)
            /\ Len(indices) = Cells
            /\ \A c \in 0..(cfg.width - 1), r \in 0..(height - 1) :
                  \A i \in 0..(ps - 1), j \in 0..(ps - 1) :
                      get_pixel(output, c * ps + i, r * ps + j)
                        = get_pixel(images[indices[r * cfg.width + c + 1] + 1].image,
                                    i, j)
            /\ DOMAIN writes = DOMAIN output.pix
            /\ \A n \in DOMAIN writes : writes[n] = 1

\* C6 witness: a returned raster of at least two cells of more than one
\* pixel, two cells filled by different tiles, one of them not symmetric
C6_Witness ==
    /\ cpc = "returned"
    /\ cfg.pixel_size >= 2
    /\ Cells >= 2
    /\ \E j, k \in 1..Cells : indices[j] # indices[k]
    /\ \E k \in 1..Cells :
          LET tile == images[indices[k] + 1].image
          IN  get_pixel(tile, 1, 0) # get_pixel(tile, 0, 1)

\* the sequences of qs joined with sep between them
RECURSIVE JoinWith(_, _)
JoinWith(qs, sep) ==
    IF Len(qs) = 0 THEN <<>>
    ELSE IF Len(qs) = 1 THEN qs[1]
    ELSE qs[1] \o <<sep>> \o JoinWith(Tail(qs), sep)

RECURSIVE SumLen(_)
SumLen(qs) == IF Len(qs) = 0 THEN 0 ELSE Len(qs[1]) + SumLen(Tail(qs))

CellName(r, c) == images[indices[r * cfg.width + c + 1] + 1].name

\* C10: when the label grid is requested and collage returns, the text is
\* the rows joined by a newline, a row being its cells' names (row-major, as
\* in the image) joined by a space: its length is the names' lengths plus
\* height * (width - 1) spaces plus height - 1 newlines (nothing for a grid
\* of no rows); when it is not requested nothing is written.
C10_LabelGridText ==
    cpc = "returned" =>
        IF cfg.output_indices
        THEN LET rows == [r \in 1..height |->
                            JoinWith([c \in 1..cfg.width |-> CellName(r - 1, c - 1)],
                                     Space)]
                 all  == [k \in 1..Cells |->
                            CellName((k - 1) \div cfg.width, (k - 1) % cfg.width)]
             IN  /\ names_text.written
                 /\ names_text.s = JoinWith(rows, Newline)
                 /\ height >= 1 =>
                      Len(names_text.s)
                        = SumLen(all) + height * (cfg.width - 1) + (height - 1)
                 /\ height = 0 => names_text.s = <<>>
        ELSE names_text = NoText

\* C10 witness: a 2 x 2 grid with its label grid written, whose cells do not
\* all carry the same name
C10_Witness ==
    /\ cpc = "returned"
    /\ cfg.output_indices
    /\ cfg.width = 2 /\ height = 2
    /\ names_text.written
    /\ \E j, k \in 1..Cells : images[indices[j] + 1].name # images[indices[k] + 1].name

----------------------------------------------------------------------------
(* Properties of the tile generator (SpecImager)                           *)

\* C7 (the claim as stated): the augmented pool of N sources holds 8N tiles
\* with rotation, N without, and twice that with inversion.  It fails: with
\* rotation the pool holds 7N tiles, the mirrors being rotated by 90, 180
\* and 270 degrees but never added unrotated.
C7_AugmentedPoolSize ==
    ipc = "done" =>
        Len(create_dynamic_images(folder, icfg))
          = Len(folder) * (IF icfg.allow_rotate THEN 8 ELSE 1)
                        * (IF icfg.allow_invert THEN 2 ELSE 1)

\* What the code does: 7N with rotation, N without, doubled by inversion.
AugmentedPoolSizeOfCode ==
    ipc = "done" =>
        Len(create_dynamic_images(folder, icfg))
          = Len(folder) * (IF icfg.allow_rotate THEN 7 ELSE 1)
                        * (IF icfg.allow_invert THEN 2 ELSE 1)

\* the augmented tiles, partitioned as created_permuted_images does
Augmented == create_dynamic_images(folder, icfg)
Transparents == SelectSeq(Augmented, contains_transparency)
Solids == SelectSeq(Augmented, LAMBDA pr : ~contains_transparency(pr))

\* the combination of d layers whose layers are the base-T digits of k, the
\* first layer the most significant: each layer painted over the ones before
RECURSIVE LayeredCombination(_, _, _)
LayeredCombination(orig, d, k) ==
    IF d = 1 THEN orig[k + 1]
    ELSE combine_images_f32(LayeredCombination(orig, d - 1, k \div Len(orig)),
                            orig[(k % Len(orig)) + 1])

\* C8: for depth D >= 1, S solid and T transparent augmented tiles,
\* recombine_transparents returns T + T^2 + ... + T^D combinations, the T^d of
\* depth d after those of the lower depths and each one d original
\* transparent tiles painted over each other (depth 1: the tiles themselves);
\* the pool is the S * (T + ... + T^D) composites solid x combination,
\* solid-major and unnamed, followed by the S solid tiles; its length leaves
\* no room for the transparent tiles themselves.
C8_PermutedPool ==
    (ipc = "done" /\ icfg.depth >= 1) =>
        LET T == Len(Transparents)
            S == Len(Solids)
            D == icfg.depth
            orig == PairImages(Transparents)
            combos == recombine_transparents(orig, D)
            C == GeomSum(T, D)
        IN  /\ Len(combos) = C
            /\ \A d \in 1..D : \A k \in 0..(Pow(T, d) - 1) :
                  combos[GeomSum(T, d - 1) + k + 1] = LayeredCombination(orig, d, k)
            /\ Len(pool) = S * C + S
            /\ \A i \in 1..S : \A j \in 1..C :
                  pool[(i - 1) * C + j]
                    = [image |-> into_rgb8(combine_images(Solids[i].image, combos[j])),
                       name |-> <<>>]
            /\ \A i \in 1..S :
                  pool[S * C + i] = map_image(Solids[i], "into_rgb8")

\* C8 witness: depth 2 with at least two solid and two transparent tiles
C8_Witness ==
    /\ ipc = "done"
    /\ icfg.depth = 2
    /\ Len(Transparents) >= 2
    /\ Len(Solids) >= 2
    /\ Len(pool) = Len(Solids) * (Len(Transparents) + Pow(Len(Transparents), 2))
                   + Len(Solids)

\* C9: at depth 0 the returned pool is the augmented pool, tile for tile in
\* the same order (as Rgb), whatever tiles are transparent.
C9_DepthZeroIsAugmentedPool ==
    (ipc = "done" /\ icfg.depth = 0) =>
        /\ Len(pool) = Len(Augmented)
        /\ \A i \in 1..Len(pool) :
              /\ pool[i].name = Augmented[i].name
              /\ pool[i].image = into_rgb8(Augmented[i].image)

\* C9 witness: depth 0, augmentation enabled, with both a transparent and a
\* solid source tile
C9_Witness ==
    /\ ipc = "done"
    /\ icfg.depth = 0
    /\ icfg.allow_rotate
    /\ Len(Transparents) >= 1
    /\ Len(Solids) >= 1
    /\ Len(pool) = Len(Transparents) + Len(Solids)

----------------------------------------------------------------------------
(* Properties of the loader (SpecLoader, SpecLoaderFair)                   *)

\* the error is an I/O error with OS error code 24
IsTooManyOpenFiles(err) ==
    /\ err.error.kind = "IoError"
    /\ err.error.raw_os_error.some
    /\ err.error.raw_os_error.val = EMFILE

\* what loader k returns when its open is not refused for lack of descriptors
OwnResult(k) ==
    LET image_file == Discovered[k]
    IN  IF ~image_file.ok THEN Err(ErrorFromIo(IoError(None)))
        ELSE IF image_file.open.decoded
        THEN Ok([image |-> resize_image(image_file.open.kind, TileSize),
                 name |-> file_stem(image_file.file_name).val])
        ELSE Err(ErrorNew(image_file.file_name, image_file.open.error))

\* no loader, and not Imager::new, has returned an error of code 24
NoTooManyOpenFilesReturned ==
    /\ \A k \in 1..lspawned :
          (loader[k] = "done" /\ ~lret[k].ok) => ~IsTooManyOpenFiles(lret[k].err)
    /\ ~IsTooManyOpenFiles(lerr)

\* a step of loader k: out of an open it sleeps only if the open was refused
\* with code 24, and otherwise returns the file's own result at once; out of
\* the sleep it opens the same path again
LoopStep(k) ==
    /\ (loader[k] = "open" /\ loader'[k] # "open") =>
          \/ /\ loader'[k] = "sleep"
             /\ emfile
             /\ retries'[k] = Min(retries[k] + 1, MaxRetries)
          \/ /\ loader'[k] = "done"
             /\ lret'[k] = OwnResult(k)
             /\ retries'[k] = retries[k]
    /\ (loader[k] = "open" /\ ~emfile /\ loader'[k] # "open") =>
          loader'[k] = "done"
    /\ (loader[k] = "sleep" /\ loader'[k] # "sleep") =>
          (loader'[k] = "open" /\ dir' = dir)
    /\ loader[k] = "done" => (loader'[k] = "done" /\ lret'[k] = lret[k])

\* every loader spawned has returned, and no more are going to be spawned
LoadersTerminated ==
    /\ lpc \notin {"read_dir", "spawn"}
    /\ \A k \in 1..lspawned : loader[k] = "done"

\* C11: an open failure of OS error code 24 is never returned: the loader
\* sleeps and opens the same path again, any number of times; it leaves the
\* loop only with the opened image or with a different error, returned at
\* once; and if the process eventually stays below its limit of open files,
\* every loader eventually returns.
C11_RetryOnlyTooManyOpenFiles ==
    /\ []NoTooManyOpenFilesReturned
    /\ [][\A k \in 1..lspawned : LoopStep(k)]_vars
    /\ (<>[](~emfile)) => <>LoadersTerminated

\* C11 witness: a loader that was refused with code 24 MaxRetries times (or
\* more) and then returned the image, next to one that returned its own error
C11_Witness ==
    /\ \E k \in 1..lspawned :
          loader[k] = "done" /\ lret[k].ok /\ retries[k] = MaxRetries
    /\ \E k \in 1..lspawned :
          loader[k] = "done" /\ ~lret[k].ok /\ lret[k].err.filename.some
                             /\ retries[k] >= 1

\* the discovered entries that fail for good: the entry could not be read, or
\* the file is refused or does not decode with an error other than code 24
Failing == {k \in 1..Len(Discovered) : ~OwnResult(k).ok}

FirstFailing == CHOOSE k \in Failing : \A j \in Failing : k <= j

\* C12: if a discovered file cannot be opened or decoded (code 24 aside),
\* Imager::new never gets to build a pool, whatever else loaded and in
\* whatever order the loaders finish; once it has returned, it has returned
\* the error of the first failing entry in discovery order, which carries
\* the path of that file.  (An entry read_dir itself failed on counts as a
\* failing entry; its error has no path.)
C12_FirstFailingFileIsReported ==
    (dir.readable /\ Failing # {}) =>
        /\ ipc \in {"load", "failed"}
        /\ pool = <<>> /\ folder = <<>>
        /\ lpc # "panicked"
        /\ lpc = "returned" =>
              /\ ipc = "failed"
              /\ lerr = OwnResult(FirstFailing).err
              /\ Discovered[FirstFailing].ok =>
                    /\ lerr.filename.some
                    /\ lerr.filename.val = Discovered[FirstFailing].file_name
                    /\ lerr.error = Discovered[FirstFailing].open.error

\* C12 witness: two files fail; Imager::new has returned the error of the
\* first, which had to retry, while the second had long failed
C12_Witness ==
    /\ lpc = "returned" /\ ipc = "failed"
    /\ Len(Discovered) = MaxEntries
    /\ Failing = {MaxEntries - 1, MaxEntries}
    /\ lerr.filename.some
    /\ lerr.filename.val = Discovered[MaxEntries - 1].file_name
    /\ retries[MaxEntries - 1] >= 1
    /\ loader[MaxEntries] = "done" /\ retries[MaxEntries] = 0

\* the number of augmented tiles create_dynamic_images makes of the folder
AugmentedCount ==
    Len(folder) * (IF icfg.allow_rotate THEN 7 ELSE 1)
                * (IF icfg.allow_invert THEN 2 ELSE 1)

\* the source file (its place in the folder) of the i-th augmented tile:
\* every block of copies keeps the order of the folder
AugmentedSource(i) == ((i - 1) % Len(folder)) + 1

\* the augmented tiles without transparency, by their place in that sequence
SolidAugmented ==
    SelectSeq([i \in 1..AugmentedCount |-> i],
              LAMBDA i : ~contains_transparency(folder[AugmentedSource(i)]))

\* the stem of the k-th file of the directory that was loaded
StemOfFile(k) == file_stem(Discovered[k].file_name).val

\* C13: in the pool Imager::new returns, the composites (the first
\* Composites tiles at depth >= 1, none at depth 0) are exactly the tiles
\* with an empty name; every other tile, mirrored, rotated or inverted,
\* carries the stem of the file it was made from.
C13_EmptyNameIffComposite ==
    ipc = "done" =>
        /\ Len(folder) = Len(Discovered)
        /\ \A i \in 1..Len(pool) :
              /\ (pool[i].name = <<>>) <=> (i <= Composites)
              /\ i > Composites =>
                    LET a == IF icfg.depth = 0 THEN i
                             ELSE SolidAugmented[i - Composites]
                    IN  pool[i].name = StemOfFile(AugmentedSource(a))

\* C13 witness: a depth-1 pool of rotated tiles, made of a file with an
\* extension and a file whose name starts with the Dot, holding composites
\* and named tiles
C13_Witness ==
    /\ ipc = "done"
    /\ icfg.depth = 1 /\ icfg.allow_rotate
    /\ Composites >= 1
    /\ Len(pool) > Composites
    /\ \E k \in 1..Len(Discovered) :
          StemOfFile(k) # Discovered[k].file_name
    /\ \E k \in 1..Len(Discovered) :
          Discovered[k].file_name[1] = Dot

----------------------------------------------------------------------------
(* Properties of the grid (SpecCollage) and of the pool (SpecImager)       *)

\* C14: positions_iter yields width * height positions, the one of row r
\* and column c at place r * width + c; each cell lies inside the resized
\* target, and no worker's sub-raster extraction has failed.
C14_PositionsInsideTarget ==
    cpc # "idle" =>
        LET ps == cfg.pixel_size
            positions == positions_iter(cfg.width, height, ps)
        IN  /\ Len(positions) = cfg.width * height
            /\ \A r \in 0..(height - 1), c \in 0..(cfg.width - 1) :
                  positions[r * cfg.width + c + 1] = [x |-> c * ps, y |-> r * ps]
            /\ \A k \in 1..Len(positions) :
                  /\ positions[k].x + ps <= image.width
                  /\ positions[k].y + ps <= image.height
            /\ \A k \in 1..spawned : worker[k] # "panicked"

\* C14 witness: the workers of a grid of several columns and rows, the one
\* of the last cell included, have extracted their sub-rasters; a cell ends
\* on the right edge of the target
C14_Witness ==
    /\ cfg.width >= 2 /\ height >= 2
    /\ spawned = Cells
    /\ worker[Cells] = "finished"
    /\ \E k \in 1..Cells :
          /\ worker[k] = "finished"
          /\ positions_iter(cfg.width, height, cfg.pixel_size)[k].x
               + cfg.pixel_size = image.width

\* C15 (the claim as stated): a folder of at least one loaded tile gives a
\* pool of at least one candidate, for every config.
C15_NonEmptyFolderNonEmptyPool ==
    (ipc = "done" /\ Len(folder) >= 1) => Len(pool) >= 1

\* What the code does: the pool of a non-empty folder is empty exactly when
\* depth >= 1 and every tile has a transparent pixel.
EmptyPoolIffPermutedWithoutSolid ==
    (ipc = "done" /\ Len(folder) >= 1) =>
        ((Len(pool) = 0) <=> (icfg.depth >= 1 /\ Len(Solids) = 0))

====
